---- MODULE Spec2Model ----
(***************************************************************************)
(* Turn orchestration of the AI inbox service (logic.py) with its provider *)
(* router and the two booking provider modules (setmore.py, square.py).    *)
(*                                                                         *)
(* The Flask development server started by app.run handles every request   *)
(* in its own thread, so several calls of get_chatbot_response run at the  *)
(* same time on the module-level dictionary conversation_histories.  The   *)
(* interleaving is modelled at the grain the interpreter guarantees: one   *)
(* list.append is atomic, while "d[k] = d[k][-10:]" and "if k not in d:    *)
(* d[k] = []" are a read followed by a separate write.                     *)
(*                                                                         *)
(* Texts are sequences of tokens; " " is a whitespace token.  The empty    *)
(* sequence stands for an absent or empty content (None or ""), which the  *)
(* code treats alike (both are falsy).                                     *)
(***************************************************************************)
EXTENDS Integers, Sequences, FiniteSets, TLC

\* ------------------------------------------------------------------ bounds
\* Number of turns (calls of get_chatbot_response) started in one behaviour.
MaxTurns == 2
\* Largest number of tool calls in one oracle response.
MaxTools == 2

Users == {"u1", "u2"}
Threads == {1, 2}

\* ---------------------------------------------------------------- constants
\* logic.py:159, the slice [-10:]
HistoryLimit == 10

\* logic.py:164
APOLOGY == <<"Sorry, there was an error processing your request.">>
\* logic.py:160
NEUTRAL == <<"How else can I help you today?">>
\* logic.py:37 and :42
UNSUPPORTED == "error: This booking provider is not configured or supported."

\* Python's None where a string is expected (provider id, credential).
NoneStr == "<None>"

\* The message a user sends (user_prompt); turns are told apart by their number.
UserPrompt == <<"hi">>

\* Contents the oracle may answer with: absent/empty, plain, padded with blanks.
Texts == { <<>>, <<"ok">>, <<" ", "ok", " ">> }

\* ------------------------------------------------------------- pure helpers
Truthy(s) == s # <<>>

TruthyStr(s) == s \notin {NoneStr, ""}

RECURSIVE LStrip(_)
LStrip(s) == IF s # <<>> /\ Head(s) = " " THEN LStrip(Tail(s)) ELSE s

RECURSIVE RStrip(_)
RStrip(s) ==
    IF s # <<>> /\ s[Len(s)] = " " THEN RStrip(SubSeq(s, 1, Len(s) - 1)) ELSE s

\* str.strip()
Strip(s) == RStrip(LStrip(s))

\* h[-n:]
LastN(h, n) == IF Len(h) <= n THEN h ELSE SubSeq(h, Len(h) - n + 1, Len(h))

\* d.get(k) on a dictionary with string keys
Get(d, k) == IF k \in DOMAIN d THEN d[k] ELSE NoneStr

\* a or b
Or(a, b) == IF TruthyStr(a) THEN a ELSE b

\* d[k] = v
SetKey(d, k, v) == [x \in (DOMAIN d) \cup {k} |-> IF x = k THEN v ELSE d[x]]

\* ------------------------------------------------------- booking providers
\* Outcome of the network exchange with Setmore during one provider operation:
\* every request succeeds; a request fails in a way the module catches
\* (requests.exceptions.RequestException, or the try/except Exception around
\* the last request); a fault escapes (a payload of an unexpected shape at
\* setmore.py:27, :45, :64, :88, or an empty customer name at :81); the server
\* accepts a request and never answers it (requests.get and requests.post are
\* called without a timeout at setmore.py:24, :43, :62, :86, :118, :158, so the
\* call waits for ever).
SetmoreOutcomes == {"ok", "error", "raise", "hang"}

\* Python's binding of keyword arguments to a function's parameters: every
\* required parameter is given, and nothing else unless the function has **kwargs.
Binds(required, has_kwargs, kwargs) ==
    /\ required \subseteq DOMAIN kwargs
    /\ has_kwargs \/ DOMAIN kwargs \subseteq required

Raised(impl) == [raised |-> TRUE, hung |-> FALSE, impl |-> impl, content |-> ""]
Returned(impl, content) ==
    [raised |-> FALSE, hung |-> FALSE, impl |-> impl, content |-> content]
\* The call never returns.
Hung(impl) == [raised |-> FALSE, hung |-> TRUE, impl |-> impl, content |-> ""]

\* setmore.py:16-18: no request is sent for a missing or dummy refresh token.
SendsRequests(refresh_token) ==
    TruthyStr(refresh_token) /\ refresh_token # "DUMMY_API_KEY"

\* setmore.py:15-35
get_access_token(refresh_token, oc) ==
    IF ~SendsRequests(refresh_token) THEN NoneStr
    ELSE IF oc = "error" THEN NoneStr
    ELSE "access-token"

\* setmore.py:100-126
setmore_get_availability(kwargs, oc) ==
    IF ~Binds({"service_name", "date", "client_api_key"}, TRUE, kwargs)
    THEN Raised("setmore")
    ELSE IF SendsRequests(kwargs["client_api_key"]) /\ oc = "hang" THEN Hung("setmore")
    ELSE IF SendsRequests(kwargs["client_api_key"]) /\ oc = "raise" THEN Raised("setmore")
    ELSE IF get_access_token(kwargs["client_api_key"], oc) = NoneStr
    THEN Returned("setmore", "error: Authentication with booking provider failed.")
    ELSE Returned("setmore", "Setmore: available_times")

\* setmore.py:128-164
setmore_create_appointment(kwargs, oc) ==
    IF ~Binds({"service_name", "date", "time", "customer_name", "client_api_key"},
              TRUE, kwargs)
    THEN Raised("setmore")
    ELSE IF SendsRequests(kwargs["client_api_key"]) /\ oc = "hang" THEN Hung("setmore")
    ELSE IF SendsRequests(kwargs["client_api_key"]) /\ oc = "raise" THEN Raised("setmore")
    ELSE IF get_access_token(kwargs["client_api_key"], oc) = NoneStr
    THEN Returned("setmore", "error: Authentication with booking provider failed.")
    ELSE Returned("setmore", "Setmore: success")

\* square.py:4-9
square_get_availability(kwargs) ==
    IF ~Binds({"service_name", "date", "client_api_key"}, FALSE, kwargs)
    THEN Raised("square")
    ELSE Returned("square", "Square: available_times")

\* square.py:11-19
square_create_appointment(kwargs) ==
    IF ~Binds({"service_name", "date", "time", "customer_name", "client_api_key"},
              FALSE, kwargs)
    THEN Raised("square")
    ELSE Returned("square", "Square: success")

\* The keyword arguments left after the parameter `provider` is bound.
Rest(args) == [k \in (DOMAIN args) \ {"provider"} |-> args[k]]

\* Mutant of get_availability_from_provider: an unknown provider is a fault.
get_availability_from_provider_Raising(args, oc) ==
    IF args["provider"] = "setmore" THEN setmore_get_availability(Rest(args), oc)
    ELSE IF args["provider"] = "square" THEN square_get_availability(Rest(args))
    ELSE Raised("none")

\* logic.py:34-37
get_availability_from_provider(args, oc) ==
    IF args["provider"] = "setmore" THEN setmore_get_availability(Rest(args), oc)
    ELSE IF args["provider"] = "square" THEN square_get_availability(Rest(args))
    ELSE Returned("none", UNSUPPORTED)

\* Mutant of create_appointment_with_provider: the two branches are swapped.
create_appointment_with_provider_Swapped(args, oc) ==
    IF args["provider"] = "setmore" THEN square_create_appointment(Rest(args))
    ELSE IF args["provider"] = "square" THEN setmore_create_appointment(Rest(args), oc)
    ELSE Returned("none", UNSUPPORTED)

\* logic.py:39-42
create_appointment_with_provider(args, oc) ==
    IF args["provider"] = "setmore" THEN setmore_create_appointment(Rest(args), oc)
    ELSE IF args["provider"] = "square" THEN square_create_appointment(Rest(args))
    ELSE Returned("none", UNSUPPORTED)

\* logic.py:139, the dictionary available_functions
available_functions == {"check_availability", "create_appointment"}

\* logic.py:142 and :147, function_to_call(**args)
function_to_call(name, args, oc) ==
    IF name = "check_availability" THEN get_availability_from_provider(args, oc)
    ELSE create_appointment_with_provider(args, oc)

\* --------------------------------------------------------- context builder
\* Service names are sequences of characters, so that sorting and title-casing
\* act on them as they do on Python strings.
LowerCase == {"a", "b"}
UpperCase == {"A", "B"}
upper(c) == IF c = "a" THEN "A" ELSE IF c = "b" THEN "B" ELSE c
lower(c) == IF c = "A" THEN "a" ELSE IF c = "B" THEN "b" ELSE c

\* The order of the characters (their code points): blank, upper case, lower case.
Rank(c) ==
    IF c = " " THEN 0
    ELSE IF c = "A" THEN 1 ELSE IF c = "B" THEN 2
    ELSE IF c = "a" THEN 3 ELSE 4

\* s1 < s2 on strings
RECURSIVE StrLess(_, _)
StrLess(s1, s2) ==
    IF s2 = <<>> THEN FALSE
    ELSE IF s1 = <<>> THEN TRUE
    ELSE IF Head(s1) # Head(s2) THEN Rank(Head(s1)) < Rank(Head(s2))
    ELSE StrLess(Tail(s1), Tail(s2))

\* str.title(): a letter that follows a letter is lowered, any other letter is raised.
RECURSIVE TitleFrom(_, _)
TitleFrom(s, in_word) ==
    IF s = <<>> THEN <<>>
    ELSE IF Head(s) \in LowerCase \cup UpperCase
    THEN <<IF in_word THEN lower(Head(s)) ELSE upper(Head(s))>> \o TitleFrom(Tail(s), TRUE)
    ELSE <<Head(s)>> \o TitleFrom(Tail(s), FALSE)

title(s) == TitleFrom(s, FALSE)

\* A dictionary of services is the sequence of its items in insertion order;
\* an item is <<name, details>> and no name occurs twice.
RECURSIVE InsertItem(_, _)
InsertItem(item, items) ==
    IF items = <<>> THEN <<item>>
    ELSE IF StrLess(item[1], Head(items)[1]) THEN <<item>> \o items
    ELSE <<Head(items)>> \o InsertItem(item, Tail(items))

\* sorted(service_dict.items()): the names differ, so the names decide the order.
RECURSIVE sorted(_)
sorted(items) ==
    IF items = <<>> THEN <<>>
    ELSE InsertItem(Head(items), sorted(Tail(items)))

\* logic.py:97, one line of the list
ServiceLine(item) ==
    <<"- ", title(item[1]), ": Price is ", item[2].price, ", Duration is ",
      item[2].duration>>

\* Mutant of format_services_for_prompt: the items are listed as supplied.
format_services_for_prompt_Unsorted(service_dict) ==
    IF service_dict = <<>> THEN << <<"No specific service details are loaded.">> >>
    ELSE [i \in DOMAIN service_dict |-> ServiceLine(service_dict[i])]

\* logic.py:94-97; the result is the sequence of the lines that "\n" joins.
format_services_for_prompt(service_dict) ==
    IF service_dict = <<>> THEN << <<"No specific service details are loaded.">> >>
    ELSE [i \in DOMAIN service_dict |-> ServiceLine(sorted(service_dict)[i])]

\* config.get(key, default)
GetDefault(d, k, default) == IF k \in DOMAIN d THEN d[k] ELSE default

\* logic.py:104-122: the instruction string, as the sequence of its fixed
\* parts and of the values put between them.
system_prompt(business, today) ==
    << "You are an automated appointment booking assistant for a business named ",
       GetDefault(business.config, "business_name", "our shop"),
       "Today's date is ", today,
       "HANDOFF RULE: respond with ONLY the following phrase: ",
       GetDefault(business.config, "handoff_code",
                  "I'm not sure about that, but I can get a team member to help you."),
       "--- Business Information for Fallback Questions ---",
       format_services_for_prompt(business.services) >>

\* ------------------------------------------------------------------ inputs
\* business_data as load_business_data returns it (logic.py:58-84): service
\* names are lower case, in the order of the rows of the sheet.
CutAndDye == <<"a", " ", "b">>
Beard == <<"b">>

ServiceDicts ==
    { <<>>,
      << <<Beard, [price |-> "$20", duration |-> "15 min"]>>,
         <<CutAndDye, [price |-> "$90", duration |-> "2 h"]>> >>,
      << <<CutAndDye, [price |-> "$90", duration |-> "2 h"]>>,
         <<Beard, [price |-> "$20", duration |-> "15 min"]>> >> }

Configs ==
    { [timezone |-> "UTC"],
      [business_name |-> "Cutz", handoff_code |-> "HANDOFF"] }

BusinessData == { [services |-> sd, config |-> c] : sd \in ServiceDicts, c \in Configs }

\* The values of datetime.now().strftime('%Y-%m-%d') (logic.py:106).
Dates == {"2024-05-01", "2024-05-02"}

\* booking_data as the two endpoints pass it (logic.py:205 and :229).
BookingData ==
    { [provider |-> "setmore", api_key |-> "refresh-1"],
      [booking_provider |-> "square", booking_api_key |-> "sq-key"],
      [provider |-> "unknown", api_key |-> "refresh-1"] }

\* logic.py:145
ProviderOf(bd) == Or(Get(bd, "provider"), Get(bd, "booking_provider"))
\* logic.py:146
ApiKeyOf(bd) == Or(Get(bd, "api_key"), Get(bd, "booking_api_key"))

AvailArgs == [service_name |-> "haircut", date |-> "2024-05-02"]
CreateArgs ==
    [service_name |-> "haircut", date |-> "2024-05-02", time |-> "10:00 AM",
     customer_name |-> "Ann Lee", customer_email |-> "ann@example.com"]

\* Arguments in which the oracle names a provider and a credential itself.
ForgedArgs ==
    [service_name |-> "haircut", date |-> "2024-05-02", provider |-> "square",
     client_api_key |-> "oracle-key"]

\* The tool requests the oracle may put in a response (without their ids):
\* the two tools of the schema, a tool the schema does not have, and a request
\* whose arguments string is not JSON.
ToolRequests ==
    { [name |-> "check_availability", arguments |-> [wellformed |-> TRUE, dict |-> AvailArgs]],
      [name |-> "create_appointment", arguments |-> [wellformed |-> TRUE, dict |-> CreateArgs]],
      [name |-> "cancel_appointment", arguments |-> [wellformed |-> TRUE, dict |-> AvailArgs]],
      [name |-> "check_availability", arguments |-> [wellformed |-> FALSE, dict |-> AvailArgs]] }

WithIds(f) ==
    [i \in DOMAIN f |-> [id |-> i, name |-> f[i].name, arguments |-> f[i].arguments]]

ToolCallLists ==
    { WithIds(f) : f \in UNION { [1..n -> ToolRequests] : n \in 1..MaxTools } }

\* What chat.completions.create does on the tool-enabled call (logic.py:133-135).
OracleFirstResponses ==
    { [raised |-> TRUE, content |-> <<>>, tool_calls |-> <<>>] }
    \cup { [raised |-> FALSE, content |-> c, tool_calls |-> <<>>] : c \in Texts }
    \cup { [raised |-> FALSE, content |-> <<>>, tool_calls |-> tc] : tc \in ToolCallLists }

\* What it does on the synthesis call (logic.py:150-151).
OracleSecondResponses ==
    { [raised |-> TRUE, content |-> <<>>, tool_calls |-> <<>>] }
    \cup { [raised |-> FALSE, content |-> c, tool_calls |-> <<>>] : c \in Texts }

\* ------------------------------------------------------------------- state
VARIABLES
    conversation_histories, \* logic.py:31, the list kept for each user id
    history_keys,           \* the keys present in conversation_histories
    ever_persisted,         \* for each user id, every entry ever put into its list, in order
    started,                \* number of turns started so far
    pc,                     \* where each request thread is in get_chatbot_response
    user_id,                \* its argument user_id
    business_data,          \* its argument business_data
    booking_data,           \* its argument booking_data
    turn_no,                \* the number of the turn it is processing
    messages,               \* its local list messages (logic.py:129)
    tool_calls,             \* its local tool_calls (logic.py:135)
    idx,                    \* position of the for loop over tool_calls (logic.py:140)
    final_response,         \* its local final_response (logic.py:151, :155)
    second_response,        \* the message of its local second_response (logic.py:150)
    sliced,                 \* the value of conversation_histories[user_id][-10:] before it is stored
    reply,                  \* the value the call returned
    calls,                  \* oracle calls made by the turn
    decision,               \* what the first oracle response was: "none", "text", "tools"
    fault,                  \* which statement raised into the except clause, if any
    invoked,                \* the calls of tool functions made in the turn: for which request,
                            \* with which provider id and credential, entering which
                            \* implementation, and how the call ended
    appended                \* entries the turn appended to conversation_histories

store == <<conversation_histories, history_keys, ever_persisted>>
inputs == <<user_id, business_data, booking_data, turn_no, started>>
locals == <<messages, tool_calls, idx, final_response, second_response, sliced>>
outcome == <<reply, calls, decision, fault, invoked, appended>>
vars == <<store, inputs, pc, locals, outcome>>

NoBooking == [unset |-> ""]
NoResponse == [content |-> <<>>, tool_calls |-> <<>>]
NoBusiness == [services |-> <<>>, config |-> [unset |-> ""]]
NoUser == "-"

\* The entries of a turn.  The field turn is not in the program's dictionaries:
\* it tells the entries of different turns apart.
UserEntry(t) == [role |-> "user", content |-> UserPrompt, turn |-> turn_no[t]]
AssistantEntry(t, text) == [role |-> "assistant", content |-> text, turn |-> turn_no[t]]
\* logic.py:129, the first message
SystemEntry(business, today) ==
    [role |-> "system", content |-> system_prompt(business, today)]

\* Number of user/assistant pairs a history may hold before the run starts.
PrefillPairs == 4

\* A history left by earlier turns, each of which answered with a text.
Prefill ==
    [i \in 1..(2 * PrefillPairs) |->
        IF i % 2 = 1
        THEN [role |-> "user", content |-> UserPrompt, turn |-> 0 - ((i + 1) \div 2)]
        ELSE [role |-> "assistant", content |-> <<"ok">>, turn |-> 0 - ((i + 1) \div 2)]]

\* The service has just started, or user u1 has talked to it before.
Init ==
    /\ conversation_histories \in
            { [u \in Users |-> <<>>],
              [u \in Users |-> IF u = "u1" THEN Prefill ELSE <<>>] }
    /\ history_keys = {u \in Users : conversation_histories[u] # <<>>}
    /\ ever_persisted = conversation_histories
    /\ started = 0
    /\ pc = [t \in Threads |-> "idle"]
    /\ user_id = [t \in Threads |-> NoUser]
    /\ business_data = [t \in Threads |-> NoBusiness]
    /\ booking_data = [t \in Threads |-> NoBooking]
    /\ turn_no = [t \in Threads |-> 0]
    /\ messages = [t \in Threads |-> <<>>]
    /\ tool_calls = [t \in Threads |-> <<>>]
    /\ idx = [t \in Threads |-> 0]
    /\ final_response = [t \in Threads |-> <<>>]
    /\ second_response = [t \in Threads |-> NoResponse]
    /\ sliced = [t \in Threads |-> <<>>]
    /\ reply = [t \in Threads |-> <<>>]
    /\ calls = [t \in Threads |-> 0]
    /\ decision = [t \in Threads |-> "none"]
    /\ fault = [t \in Threads |-> "none"]
    /\ invoked = [t \in Threads |-> {}]
    /\ appended = [t \in Threads |-> <<>>]

\* ------------------------------------------------------------------ actions
\* logic.py:100-102: the call starts and tests whether the user has a history.
\* A request is given to the first free thread.
Start(t, descriptors, businesses) ==
    /\ pc[t] = "idle"
    /\ \A s \in Threads : s < t => pc[s] # "idle"
    /\ started < MaxTurns
    /\ \E u \in Users, bd \in descriptors, b \in businesses :
        /\ user_id' = [user_id EXCEPT ![t] = u]
        /\ business_data' = [business_data EXCEPT ![t] = b]
        /\ booking_data' = [booking_data EXCEPT ![t] = bd]
        /\ pc' = [pc EXCEPT ![t] = IF u \in history_keys THEN "build" ELSE "init"]
    /\ started' = started + 1
    /\ turn_no' = [turn_no EXCEPT ![t] = started + 1]
    /\ UNCHANGED <<store, locals, outcome>>

\* Mutant of InitHistory: the dictionary is replaced by one that holds only the
\* new user's empty list.
InitHistory_ResetAll(t) ==
    /\ pc[t] = "init"
    /\ conversation_histories' = [u \in Users |-> <<>>]
    /\ history_keys' = {user_id[t]}
    /\ pc' = [pc EXCEPT ![t] = "build"]
    /\ UNCHANGED <<ever_persisted, inputs, locals, outcome>>

\* logic.py:102: conversation_histories[user_id] = []
InitHistory(t) ==
    /\ pc[t] = "init"
    /\ conversation_histories' = [conversation_histories EXCEPT ![user_id[t]] = <<>>]
    /\ history_keys' = history_keys \cup {user_id[t]}
    /\ pc' = [pc EXCEPT ![t] = "build"]
    /\ UNCHANGED <<ever_persisted, inputs, locals, outcome>>

\* Mutant of BuildMessages: the user entry is put into the persisted history
\* when the message list is built, before the oracle is called.
BuildMessages_Persisting(t, dates) ==
    /\ pc[t] = "build"
    /\ \E today \in dates :
        messages' = [messages EXCEPT ![t] =
            <<SystemEntry(business_data[t], today)>>
                \o conversation_histories[user_id[t]] \o <<UserEntry(t)>>]
    /\ conversation_histories' = [conversation_histories EXCEPT ![user_id[t]] =
            Append(@, UserEntry(t))]
    /\ ever_persisted' = [ever_persisted EXCEPT ![user_id[t]] = Append(@, UserEntry(t))]
    /\ appended' = [appended EXCEPT ![t] = Append(@, UserEntry(t))]
    /\ pc' = [pc EXCEPT ![t] = "decide"]
    /\ UNCHANGED <<history_keys, inputs, tool_calls, idx, final_response,
                   second_response, sliced,
                   reply, calls, decision, fault, invoked>>

\* logic.py:104-130: the instructions are rendered for today's date and the
\* message list is built
BuildMessages(t, dates) ==
    /\ pc[t] = "build"
    /\ \E today \in dates :
        messages' = [messages EXCEPT ![t] =
            <<SystemEntry(business_data[t], today)>>
                \o conversation_histories[user_id[t]] \o <<UserEntry(t)>>]
    /\ pc' = [pc EXCEPT ![t] = "decide"]
    /\ UNCHANGED <<store, inputs, tool_calls, idx, final_response, second_response,
                   sliced, outcome>>

\* The call returns: its frame, and the locals the reply was not computed
\* from, are gone.
DropFrame(t) ==
    /\ messages' = [messages EXCEPT ![t] = <<>>]
    /\ tool_calls' = [tool_calls EXCEPT ![t] = <<>>]
    /\ idx' = [idx EXCEPT ![t] = 0]
    /\ second_response' = [second_response EXCEPT ![t] = NoResponse]
    /\ sliced' = [sliced EXCEPT ![t] = <<>>]

\* logic.py:162-164: the except clause
ExceptHandler(t, cause) ==
    /\ pc' = [pc EXCEPT ![t] = "failed"]
    /\ reply' = [reply EXCEPT ![t] = APOLOGY]
    /\ fault' = [fault EXCEPT ![t] = cause]
    /\ DropFrame(t)

\* Mutant of FirstOracleCall: the user entry is persisted when the oracle is
\* called for the decision.
FirstOracleCall_PersistingUser(t, responses) ==
    /\ pc[t] = "decide"
    /\ calls' = [calls EXCEPT ![t] = calls[t] + 1]
    /\ conversation_histories' = [conversation_histories EXCEPT ![user_id[t]] =
            Append(@, UserEntry(t))]
    /\ ever_persisted' = [ever_persisted EXCEPT ![user_id[t]] = Append(@, UserEntry(t))]
    /\ appended' = [appended EXCEPT ![t] = Append(@, UserEntry(t))]
    /\ \E r \in responses :
        \/ /\ r.raised
           /\ ExceptHandler(t, "oracle")
           /\ UNCHANGED <<final_response, decision>>
        \/ /\ ~r.raised
           /\ r.tool_calls # <<>>
           /\ tool_calls' = [tool_calls EXCEPT ![t] = r.tool_calls]
           /\ messages' = [messages EXCEPT ![t] = Append(messages[t],
                   [role |-> "assistant", content |-> r.content,
                    tool_calls |-> r.tool_calls])]
           /\ idx' = [idx EXCEPT ![t] = 1]
           /\ decision' = [decision EXCEPT ![t] = "tools"]
           /\ pc' = [pc EXCEPT ![t] = "tools"]
           /\ UNCHANGED <<final_response, second_response, sliced, reply, fault>>
        \/ /\ ~r.raised
           /\ r.tool_calls = <<>>
           /\ final_response' = [final_response EXCEPT ![t] = r.content]
           /\ decision' = [decision EXCEPT ![t] = "text"]
           /\ pc' = [pc EXCEPT ![t] = "appendUser"]
           /\ UNCHANGED <<messages, tool_calls, idx, second_response, sliced, reply, fault>>
    /\ UNCHANGED <<history_keys, inputs, invoked>>

\* logic.py:133-138 and :154-155: the tool-enabled oracle call and the branch on
\* tool_calls
FirstOracleCall(t, responses) ==
    /\ pc[t] = "decide"
    /\ calls' = [calls EXCEPT ![t] = calls[t] + 1]
    /\ \E r \in responses :
        \/ /\ r.raised
           /\ ExceptHandler(t, "oracle")
           /\ UNCHANGED <<final_response, decision>>
        \/ /\ ~r.raised
           /\ r.tool_calls # <<>>
           /\ tool_calls' = [tool_calls EXCEPT ![t] = r.tool_calls]
           /\ messages' = [messages EXCEPT ![t] = Append(messages[t],
                   [role |-> "assistant", content |-> r.content,
                    tool_calls |-> r.tool_calls])]
           /\ idx' = [idx EXCEPT ![t] = 1]
           /\ decision' = [decision EXCEPT ![t] = "tools"]
           /\ pc' = [pc EXCEPT ![t] = "tools"]
           /\ UNCHANGED <<final_response, second_response, sliced, reply, fault>>
        \/ /\ ~r.raised
           /\ r.tool_calls = <<>>
           /\ final_response' = [final_response EXCEPT ![t] = r.content]
           /\ decision' = [decision EXCEPT ![t] = "text"]
           /\ pc' = [pc EXCEPT ![t] = "appendUser"]
           /\ UNCHANGED <<messages, tool_calls, idx, second_response, sliced, reply, fault>>
    /\ UNCHANGED <<store, inputs, invoked, appended>>

\* Mutant of CallArgs: a provider or credential in the oracle's arguments is kept.
CallArgs_OracleFirst(t, tc) ==
    LET args == tc.arguments.dict IN
    SetKey(SetKey(args, "provider",
                  Or(Get(args, "provider"), ProviderOf(booking_data[t]))),
           "client_api_key",
           Or(Get(args, "client_api_key"), ApiKeyOf(booking_data[t])))

\* logic.py:144-146: the arguments the tool function is called with
CallArgs(t, tc) ==
    SetKey(SetKey(tc.arguments.dict, "provider", ProviderOf(booking_data[t])),
           "client_api_key", ApiKeyOf(booking_data[t]))

\* logic.py:148
ToolMessage(tc, content) ==
    [tool_call_id |-> tc.id, role |-> "tool", name |-> tc.name, content |-> content]

\* Mutant of AppendToolMessage: the result is put right after the message that
\* holds the tool requests, in front of the results of the earlier requests.
AppendToolMessage_AfterRequest(msgs, m) ==
    LET p == CHOOSE i \in DOMAIN msgs : "tool_calls" \in DOMAIN msgs[i] IN
    SubSeq(msgs, 1, p) \o <<m>> \o SubSeq(msgs, p + 1, Len(msgs))

\* logic.py:148, messages.append
AppendToolMessage(msgs, m) == Append(msgs, m)

\* Where the for loop goes after an iteration (logic.py:140, :150).
AfterIteration(t) == IF idx[t] = Len(tool_calls[t]) THEN "synth" ELSE "tools"

\* How a call of a tool function ended: what it returned, or that it raised or
\* never returned.
CallResult(r) == IF r.raised THEN "raised" ELSE IF r.hung THEN "hung" ELSE r.content

\* logic.py:140-148: one iteration of the loop over tool_calls
ExecuteTool(t) ==
    /\ pc[t] = "tools"
    /\ LET tc == tool_calls[t][idx[t]] IN
        \/ /\ tc.name \notin available_functions
           /\ pc' = [pc EXCEPT ![t] = AfterIteration(t)]
           /\ idx' = [idx EXCEPT ![t] = idx[t] + 1]
           /\ UNCHANGED <<messages, tool_calls, second_response, sliced, reply, fault, invoked>>
        \/ /\ tc.name \in available_functions
           /\ ~tc.arguments.wellformed
           /\ ExceptHandler(t, "arguments")
           /\ UNCHANGED invoked
        \/ /\ tc.name \in available_functions
           /\ tc.arguments.wellformed
           /\ \E oc \in SetmoreOutcomes :
                LET r == function_to_call(tc.name, CallArgs(t, tc), oc) IN
                /\ invoked' = [invoked EXCEPT ![t] = invoked[t] \cup
                        {[id |-> tc.id, provider |-> CallArgs(t, tc)["provider"],
                          credential |-> CallArgs(t, tc)["client_api_key"],
                          operation |-> tc.name, impl |-> r.impl,
                          result |-> CallResult(r)]}]
                /\ \/ /\ r.raised
                      /\ ExceptHandler(t, "provider")
                   \/ /\ r.hung
                      /\ pc' = [pc EXCEPT ![t] = "blocked"]
                      /\ UNCHANGED <<messages, tool_calls, idx, second_response, sliced,
                                     reply, fault>>
                   \/ /\ ~r.raised /\ ~r.hung
                      /\ messages' = [messages EXCEPT ![t] =
                              AppendToolMessage(messages[t], ToolMessage(tc, r.content))]
                      /\ pc' = [pc EXCEPT ![t] = AfterIteration(t)]
                      /\ idx' = [idx EXCEPT ![t] = idx[t] + 1]
                      /\ UNCHANGED <<tool_calls, second_response, sliced, reply, fault>>
    /\ UNCHANGED <<store, inputs, final_response, calls, decision, appended>>

\* Mutant of SecondOracleCall: a synthesis response that holds tool requests
\* starts another round of tool execution.
SecondOracleCall_Looping(t, responses) ==
    /\ pc[t] = "synth"
    /\ calls' = [calls EXCEPT ![t] = calls[t] + 1]
    /\ \E r \in responses :
        \/ /\ r.raised
           /\ ExceptHandler(t, "oracle")
           /\ UNCHANGED final_response
        \/ /\ ~r.raised /\ r.tool_calls # <<>>
           /\ second_response' = [second_response EXCEPT ![t] =
                   [content |-> r.content, tool_calls |-> r.tool_calls]]
           /\ tool_calls' = [tool_calls EXCEPT ![t] = r.tool_calls]
           /\ idx' = [idx EXCEPT ![t] = 1]
           /\ pc' = [pc EXCEPT ![t] = "tools"]
           /\ UNCHANGED <<messages, final_response, sliced, reply, fault>>
        \/ /\ ~r.raised /\ r.tool_calls = <<>>
           /\ second_response' = [second_response EXCEPT ![t] =
                   [content |-> r.content, tool_calls |-> r.tool_calls]]
           /\ final_response' = [final_response EXCEPT ![t] = r.content]
           /\ pc' = [pc EXCEPT ![t] = "appendUser"]
           /\ UNCHANGED <<messages, tool_calls, idx, sliced, reply, fault>>
    /\ UNCHANGED <<store, inputs, decision, invoked, appended>>

\* logic.py:150-151: the synthesis call
SecondOracleCall(t, responses) ==
    /\ pc[t] = "synth"
    /\ calls' = [calls EXCEPT ![t] = calls[t] + 1]
    /\ \E r \in responses :
        \/ /\ r.raised
           /\ ExceptHandler(t, "oracle")
           /\ UNCHANGED final_response
        \/ /\ ~r.raised
           /\ second_response' = [second_response EXCEPT ![t] =
                   [content |-> r.content, tool_calls |-> r.tool_calls]]
           /\ final_response' = [final_response EXCEPT ![t] = r.content]
           /\ pc' = [pc EXCEPT ![t] = "appendUser"]
           /\ UNCHANGED <<messages, tool_calls, idx, sliced, reply, fault>>
    /\ UNCHANGED <<store, inputs, decision, invoked, appended>>

\* logic.py:153 and :157: is an assistant entry appended after the user entry?
AppendsAssistant(t) == decision[t] = "tools" \/ Truthy(final_response[t])

\* logic.py:152 and :156
AppendUser(t) ==
    /\ pc[t] = "appendUser"
    /\ conversation_histories' = [conversation_histories EXCEPT ![user_id[t]] =
            Append(@, UserEntry(t))]
    /\ ever_persisted' = [ever_persisted EXCEPT ![user_id[t]] = Append(@, UserEntry(t))]
    /\ appended' = [appended EXCEPT ![t] = Append(@, UserEntry(t))]
    /\ pc' = [pc EXCEPT ![t] = IF AppendsAssistant(t) THEN "appendAssistant" ELSE "trimRead"]
    /\ UNCHANGED <<history_keys, inputs, locals, reply, calls, decision, fault, invoked>>

\* Mutant of AppendAssistant: the tool-request message and the tool results of
\* the turn are persisted in front of the assistant entry.
AppendAssistant_PersistingTransient(t) ==
    LET transient == SelectSeq(messages[t],
            LAMBDA m : m.role = "tool" \/ "tool_calls" \in DOMAIN m) IN
    /\ pc[t] = "appendAssistant"
    /\ conversation_histories' = [conversation_histories EXCEPT ![user_id[t]] =
            @ \o transient \o <<AssistantEntry(t, final_response[t])>>]
    /\ ever_persisted' = [ever_persisted EXCEPT ![user_id[t]] =
            @ \o transient \o <<AssistantEntry(t, final_response[t])>>]
    /\ appended' = [appended EXCEPT ![t] =
            @ \o transient \o <<AssistantEntry(t, final_response[t])>>]
    /\ pc' = [pc EXCEPT ![t] = "trimRead"]
    /\ UNCHANGED <<history_keys, inputs, locals, reply, calls, decision, fault, invoked>>

\* logic.py:153 and :157
AppendAssistant(t) ==
    /\ pc[t] = "appendAssistant"
    /\ conversation_histories' = [conversation_histories EXCEPT ![user_id[t]] =
            Append(@, AssistantEntry(t, final_response[t]))]
    /\ ever_persisted' = [ever_persisted EXCEPT ![user_id[t]] =
            Append(@, AssistantEntry(t, final_response[t]))]
    /\ appended' = [appended EXCEPT ![t] = Append(@, AssistantEntry(t, final_response[t]))]
    /\ pc' = [pc EXCEPT ![t] = "trimRead"]
    /\ UNCHANGED <<history_keys, inputs, locals, reply, calls, decision, fault, invoked>>

\* Mutant of TrimHistory: the slice keeps one entry too many.
TrimHistory_OffByOne(h) == LastN(h, HistoryLimit + 1)

\* logic.py:159, the right-hand side
TrimHistory(h) == LastN(h, HistoryLimit)

\* logic.py:159: conversation_histories[user_id][-10:] is evaluated
TrimRead(t) ==
    /\ pc[t] = "trimRead"
    /\ sliced' = [sliced EXCEPT ![t] = TrimHistory(conversation_histories[user_id[t]])]
    /\ pc' = [pc EXCEPT ![t] = "trimStore"]
    /\ UNCHANGED <<store, inputs, messages, tool_calls, idx, final_response,
                   second_response, outcome>>

\* Mutant of ReturnValue: the text is returned as the oracle gave it.
ReturnValue_NoStrip(text) == IF Truthy(text) THEN text ELSE NEUTRAL

\* logic.py:160
ReturnValue(text) == IF Truthy(text) THEN Strip(text) ELSE NEUTRAL

\* logic.py:159-160: the slice is stored and the reply returned
TrimStore(t) ==
    /\ pc[t] = "trimStore"
    /\ conversation_histories' = [conversation_histories EXCEPT ![user_id[t]] = sliced[t]]
    /\ reply' = [reply EXCEPT ![t] = ReturnValue(final_response[t])]
    /\ pc' = [pc EXCEPT ![t] = "done"]
    /\ DropFrame(t)
    /\ UNCHANGED <<history_keys, ever_persisted, inputs, final_response, calls,
                   decision, fault, invoked, appended>>

\* The request has been answered (logic.py:215, :246): the thread is free for
\* the next request and the frame of the call is gone.
Finish(t) ==
    /\ pc[t] \in {"done", "failed"}
    /\ pc' = [pc EXCEPT ![t] = "idle"]
    /\ user_id' = [user_id EXCEPT ![t] = NoUser]
    /\ business_data' = [business_data EXCEPT ![t] = NoBusiness]
    /\ booking_data' = [booking_data EXCEPT ![t] = NoBooking]
    /\ turn_no' = [turn_no EXCEPT ![t] = 0]
    /\ final_response' = [final_response EXCEPT ![t] = <<>>]
    /\ reply' = [reply EXCEPT ![t] = <<>>]
    /\ calls' = [calls EXCEPT ![t] = 0]
    /\ decision' = [decision EXCEPT ![t] = "none"]
    /\ fault' = [fault EXCEPT ![t] = "none"]
    /\ invoked' = [invoked EXCEPT ![t] = {}]
    /\ appended' = [appended EXCEPT ![t] = <<>>]
    /\ UNCHANGED <<store, started, messages, tool_calls, idx, second_response, sliced>>

\* The business context and the date that Spec and ConcurrentSpec run with:
\* two services, and a config that leaves the names to their defaults.
OneBusiness ==
    { b \in BusinessData : b.services # <<>> /\ b.services[1][1] = Beard
                            /\ "business_name" \notin DOMAIN b.config }

OneDate == {"2024-05-01"}

\* One request at a time: a request arrives when no other is being handled.
\* Every descriptor and every oracle response of the input sets is tried.
Next ==
    \E t \in Threads :
        \/ (\A s \in Threads : pc[s] = "idle") /\ Start(t, BookingData, OneBusiness)
        \/ InitHistory(t)
        \/ BuildMessages(t, OneDate)
        \/ FirstOracleCall(t, OracleFirstResponses)
        \/ ExecuteTool(t)
        \/ SecondOracleCall(t, OracleSecondResponses)
        \/ AppendUser(t)
        \/ AppendAssistant(t)
        \/ TrimRead(t)
        \/ TrimStore(t)
        \/ Finish(t)

Spec == Init /\ [][Next]_vars

\* The requests of the threaded server: a request may arrive while others are
\* being handled, and the threads' steps interleave freely.  The descriptors
\* and the first oracle responses are drawn from the smaller sets below.
ConcurrentBookingData == { [booking_provider |-> "square", booking_api_key |-> "sq-key"] }

ConcurrentTexts == { <<>>, <<"ok">> }

ConcurrentFirstResponses ==
    { r \in OracleFirstResponses :
        /\ r.content \in ConcurrentTexts
        /\ r.tool_calls \in {<<>>, WithIds(<<[name |-> "check_availability",
               arguments |-> [wellformed |-> TRUE, dict |-> AvailArgs]]>>)} }

\* The synthesis call fails or answers with a plain text.
ConcurrentSecondResponses ==
    { r \in OracleSecondResponses : r.raised \/ r.content = <<"ok">> }

ConcurrentNext ==
    \E t \in Threads :
        \/ Start(t, ConcurrentBookingData, OneBusiness)
        \/ InitHistory(t)
        \/ BuildMessages(t, OneDate)
        \/ FirstOracleCall(t, ConcurrentFirstResponses)
        \/ ExecuteTool(t)
        \/ SecondOracleCall(t, ConcurrentSecondResponses)
        \/ AppendUser(t)
        \/ AppendAssistant(t)
        \/ TrimRead(t)
        \/ TrimStore(t)
        \/ Finish(t)

ConcurrentSpec == Init /\ [][ConcurrentNext]_vars

\* The rendering of the instructions: requests of the threaded server that
\* carry the same services in either order and are handled on either date,
\* each answered by the oracle with a text.
ContextBusinessData ==
    { b \in BusinessData : b.services # <<>> /\ "business_name" \in DOMAIN b.config }

ContextFirstResponses ==
    { r \in OracleFirstResponses :
        ~r.raised /\ r.content = <<"ok">> /\ r.tool_calls = <<>> }

ContextNext ==
    \E t \in Threads :
        \/ Start(t, ConcurrentBookingData, ContextBusinessData)
        \/ InitHistory(t)
        \/ BuildMessages(t, Dates)
        \/ FirstOracleCall(t, ContextFirstResponses)
        \/ AppendUser(t)
        \/ AppendAssistant(t)
        \/ TrimRead(t)
        \/ TrimStore(t)
        \/ Finish(t)

ContextSpec == Init /\ [][ContextNext]_vars

\* An oracle that is not trusted: requests handled one at a time, with every
\* descriptor, whose first oracle response holds tool requests that name a
\* provider and a credential themselves, or book an appointment, and whose
\* synthesis response may hold tool requests again.
UntrustedToolRequests ==
    { [name |-> "check_availability", arguments |-> [wellformed |-> TRUE, dict |-> ForgedArgs]],
      [name |-> "create_appointment", arguments |-> [wellformed |-> TRUE, dict |-> CreateArgs]] }

UntrustedFirstResponses ==
    { [raised |-> FALSE, content |-> <<>>, tool_calls |-> WithIds(f)] :
        f \in UNION { [1..n -> UntrustedToolRequests] : n \in 1..MaxTools } }

UntrustedSecondResponses ==
    ConcurrentSecondResponses
    \cup { [raised |-> FALSE, content |-> c, tool_calls |-> tc] :
            c \in ConcurrentTexts,
            tc \in { x \in { r.tool_calls : r \in UntrustedFirstResponses } :
                        Len(x) = 1 /\ x[1].name = "create_appointment" } }

UntrustedNext ==
    \E t \in Threads :
        \/ (\A s \in Threads : pc[s] = "idle") /\ Start(t, BookingData, OneBusiness)
        \/ InitHistory(t)
        \/ BuildMessages(t, OneDate)
        \/ FirstOracleCall(t, UntrustedFirstResponses)
        \/ ExecuteTool(t)
        \/ SecondOracleCall(t, UntrustedSecondResponses)
        \/ AppendUser(t)
        \/ AppendAssistant(t)
        \/ TrimRead(t)
        \/ TrimStore(t)
        \/ Finish(t)

UntrustedSpec == Init /\ [][UntrustedNext]_vars

\* ================================================================== claims
Contains(h, sub) ==
    \E k \in 1..(Len(h) + 1) :
        /\ k + Len(sub) - 1 <= Len(h)
        /\ SubSeq(h, k, k + Len(sub) - 1) = sub

Blanks(n) == [k \in 1..n |-> " "]

\* r is s without its leading and trailing blanks.
IsStripOf(r, s) ==
    /\ \E i, j \in 0..Len(s) : s = Blanks(i) \o r \o Blanks(j)
    /\ r = <<>> \/ (r[1] # " " /\ r[Len(r)] # " ")

Finished(t) == pc[t] \in {"done", "failed"}

\* A turn of user u has appended to the history and not yet stored the trimmed list.
Persisting(u) ==
    \E t \in Threads :
        user_id[t] = u /\ pc[t] \in {"appendAssistant", "trimRead", "trimStore"}

\* C1: whenever no turn of a user is between its first append and the store of
\* the trimmed list (in particular after any sequence of completed and failed
\* turns, of this and of other users, in any interleaving), the user's
\* persisted history has at most 10 entries.
C1_HistoryBounded ==
    \A u \in Users : ~Persisting(u) => Len(conversation_histories[u]) <= HistoryLimit

\* C1 witness: a turn of u1 is done, the history is full and its oldest entries
\* have been dropped.
C1_Witness ==
    \E t \in Threads :
        /\ pc[t] = "done" /\ user_id[t] = "u1" /\ ~Persisting("u1")
        /\ Len(conversation_histories["u1"]) = HistoryLimit
        /\ conversation_histories["u1"][1].turn > 0 - PrefillPairs

C3_Serializable ==
    \A t1, t2 \in Threads :
        (t1 # t2 /\ pc[t1] = "done" /\ pc[t2] = "done" /\ user_id[t1] = user_id[t2]) =>
            /\ Contains(conversation_histories[user_id[t1]], appended[t1])
            /\ Contains(conversation_histories[user_id[t1]], appended[t2])

\* C4, as claimed: a finished turn whose first response was a text made one
\* oracle call, and one whose first response held tool requests made two.
C4_CallCountLaw ==
    \A t \in Threads :
        Finished(t) =>
            /\ decision[t] = "text" => calls[t] = 1
            /\ decision[t] = "tools" => calls[t] = 2

\* C5, as claimed: when the synthesis call is issued, every tool request of the
\* response has exactly one tool message with its id in the message list.
C5_EveryRequestAnswered ==
    \A t \in Threads :
        pc[t] = "synth" =>
            \A i \in DOMAIN tool_calls[t] :
                Cardinality({ j \in DOMAIN messages[t] :
                    /\ messages[t][j].role = "tool"
                    /\ messages[t][j].tool_call_id = tool_calls[t][i].id }) = 1

\* C6, as claimed: no turn fails because of a tool request: a failed turn
\* failed on an oracle call.
C6_ProviderFailuresNeverAbort ==
    \A t \in Threads : pc[t] = "failed" => fault[t] = "oracle"

UnknownProvider(t) ==
    pc[t] # "idle" /\ ProviderOf(booking_data[t]) \notin {"setmore", "square"}

\* C7: in a turn whose descriptor names an unknown provider, every tool result
\* is the 'unsupported provider' error, no provider implementation is entered,
\* the router raises no fault, and a turn that got its synthesis has returned the
\* synthesized reply and persisted the user entry and the assistant entry.
C7_UnknownProviderIsData ==
    \A t \in Threads :
        UnknownProvider(t) =>
            /\ \A j \in DOMAIN messages[t] :
                    messages[t][j].role = "tool" => messages[t][j].content = UNSUPPORTED
            /\ \A r \in invoked[t] : r.impl = "none"
            /\ fault[t] # "provider"
            /\ (pc[t] = "done" /\ decision[t] = "tools") =>
                    /\ reply[t] = ReturnValue(final_response[t])
                    /\ appended[t] = <<UserEntry(t), AssistantEntry(t, final_response[t])>>

\* C7 witness: a turn with an unknown provider executed a tool request and is done.
C7_Witness ==
    \E t \in Threads :
        /\ UnknownProvider(t) /\ pc[t] = "done" /\ decision[t] = "tools"
        /\ invoked[t] # {} /\ Len(appended[t]) = 2

\* C8: every call the router makes for provider id 'setmore' enters the Setmore
\* implementation, every call for 'square' the Square implementation, and a
\* call for any other id enters none.
C8_RoutingCorrect ==
    \A t \in Threads : \A r \in invoked[t] :
        r.impl = IF r.provider \in {"setmore", "square"} THEN r.provider ELSE "none"

\* C8 witness: one turn routed both operations to Setmore.
C8_Witness ==
    \E t \in Threads :
        /\ \E r \in invoked[t] :
                /\ r.provider = "setmore" /\ r.impl = "setmore"
                /\ r.operation = "check_availability"
        /\ \E r \in invoked[t] :
                /\ r.provider = "setmore" /\ r.impl = "setmore"
                /\ r.operation = "create_appointment"

\* C9, as claimed: a turn whose first response had neither tool requests nor
\* text replies with the neutral prompt and persists the user entry followed by
\* an assistant entry holding the neutral prompt.
C9_EmptyResponsePersistsNeutral ==
    \A t \in Threads :
        (pc[t] = "done" /\ decision[t] = "text" /\ ~Truthy(final_response[t])) =>
            /\ reply[t] = NEUTRAL
            /\ appended[t] = <<UserEntry(t), AssistantEntry(t, NEUTRAL)>>

\* The turn appended its user entry and then one assistant entry.
AppendedPair(t) ==
    /\ Len(appended[t]) = 2
    /\ appended[t][1] = UserEntry(t)
    /\ appended[t][2].role = "assistant" /\ appended[t][2].turn = turn_no[t]

C11_FifoEviction ==
    \A u \in Users :
        ~Persisting(u) =>
            conversation_histories[u] = LastN(ever_persisted[u], HistoryLimit)

\* A step of the call that thread t is executing.
TurnStep(t) ==
    \/ InitHistory(t)
    \/ BuildMessages(t, Dates)
    \/ FirstOracleCall(t, OracleFirstResponses)
    \/ ExecuteTool(t)
    \/ SecondOracleCall(t, OracleSecondResponses)
    \/ AppendUser(t)
    \/ AppendAssistant(t)
    \/ TrimRead(t)
    \/ TrimStore(t)

\* C12, as claimed: no turn stays pending for ever.  A call that has started
\* and has not returned its reply can always take its next step: no call waits
\* for an oracle or provider answer that never comes.  (A call takes at most
\* 6 + MaxTools steps, so with this it returns.)
C12_NoTurnPendingForever ==
    \A t \in Threads :
        pc[t] \notin {"idle", "done", "failed"} => ENABLED TurnStep(t)

\* The call of thread t has rendered its instructions (they head its message list).
Rendered(t) == messages[t] # <<>>

InstructionsOf(t) == messages[t][1].content
DateOf(t) == InstructionsOf(t)[4]
ServiceLinesOf(t) == InstructionsOf(t)[8]

\* The services of a business context, whatever the order they were supplied in.
ServicesOf(business) == { business.services[i] : i \in DOMAIN business.services }

SameContext(b1, b2) == ServicesOf(b1) = ServicesOf(b2) /\ b1.config = b2.config

LowerOf(s) == [k \in DOMAIN s |-> lower(s[k])]

\* C13: two calls with the same business context (the same services, in
\* whatever order they were supplied, and the same config) that render on the
\* same date have the identical instruction string, whatever their users, the
\* histories and the turns handled before; and the rendered list has one line
\* for each service, in ascending order of the service names.
C13_IdempotentRendering ==
    /\ \A t1, t2 \in Threads :
            ( /\ Rendered(t1) /\ Rendered(t2)
              /\ SameContext(business_data[t1], business_data[t2])
              /\ DateOf(t1) = DateOf(t2) )
            => InstructionsOf(t1) = InstructionsOf(t2)
    /\ \A t \in Threads :
            (Rendered(t) /\ business_data[t].services # <<>>) =>
                /\ { ServiceLinesOf(t)[i] : i \in DOMAIN ServiceLinesOf(t) }
                        = { ServiceLine(item) : item \in ServicesOf(business_data[t]) }
                /\ \A i, j \in DOMAIN ServiceLinesOf(t) :
                        i < j => StrLess(LowerOf(ServiceLinesOf(t)[i][2]),
                                         LowerOf(ServiceLinesOf(t)[j][2]))

\* C13 witness: a call for u1, whose history holds earlier turns and the entries
\* the call has appended, and a call for u2, who has no history, were given the
\* same services in different orders and rendered the same instructions on
\* the same date.
C13_Witness ==
    \E t1, t2 \in Threads :
        /\ pc[t1] = "trimStore" /\ pc[t2] = "decide"
        /\ user_id[t1] = "u1" /\ user_id[t2] = "u2"
        /\ Len(conversation_histories["u1"]) > 2 /\ conversation_histories["u2"] = <<>>
        /\ business_data[t1].services # business_data[t2].services
        /\ SameContext(business_data[t1], business_data[t2])
        /\ DateOf(t1) = DateOf(t2)
        /\ Len(ServiceLinesOf(t1)) = 2
        /\ InstructionsOf(t1) = InstructionsOf(t2)

\* The tool requests the loop has gone past and called a tool function for.
ExecutedRequests(t) ==
    SelectSeq(SubSeq(tool_calls[t], 1, idx[t] - 1),
              LAMBDA tc : tc.name \in available_functions)

ToolMessages(t) == SelectSeq(messages[t], LAMBDA m : m.role = "tool")

\* C14: while a turn executes its tool requests and when it issues the
\* synthesis call, the calls made so far are those for the requests before the
\* loop position (so they are made one by one in the order of the oracle's
\* list), the tool messages are the last messages of the list, and the i-th
\* tool message carries the id and name of the i-th executed request.
C14_ToolResultsInRequestOrder ==
    \A t \in Threads :
        pc[t] \in {"tools", "synth"} =>
            /\ { r.id : r \in invoked[t] }
                    = { ExecutedRequests(t)[i].id : i \in DOMAIN ExecutedRequests(t) }
            /\ Len(ToolMessages(t)) = Len(ExecutedRequests(t))
            /\ ToolMessages(t) = SubSeq(messages[t],
                    Len(messages[t]) - Len(ToolMessages(t)) + 1, Len(messages[t]))
            /\ \A i \in DOMAIN ToolMessages(t) :
                    /\ ToolMessages(t)[i].tool_call_id = ExecutedRequests(t)[i].id
                    /\ ToolMessages(t)[i].name = ExecutedRequests(t)[i].name

\* C14 witness: a turn is about to issue the synthesis call after executing two
\* requests for different operations.
C14_Witness ==
    \E t \in Threads :
        /\ pc[t] = "synth" /\ Len(ToolMessages(t)) = 2
        /\ ToolMessages(t)[1].name # ToolMessages(t)[2].name
        /\ Cardinality(invoked[t]) = 2

\* An entry as the persisted history may hold it: a user or an assistant entry
\* with a content and nothing else (no tool requests, no tool-call id).
PersistableEntry(e) ==
    /\ e.role \in {"user", "assistant"}
    /\ DOMAIN e = {"role", "content", "turn"}

\* C15: every entry of every user's persisted history, and every entry that
\* was ever put into it, is a user or an assistant entry: the system
\* instruction, the oracle's tool-request message and the tool results of the
\* message list are never among them.
C15_TransientNeverPersisted ==
    \A u \in Users :
        /\ \A i \in DOMAIN conversation_histories[u] :
                PersistableEntry(conversation_histories[u][i])
        /\ \A i \in DOMAIN ever_persisted[u] : PersistableEntry(ever_persisted[u][i])

\* C15 witness: a turn whose message list holds the instructions, a
\* tool-request message and a tool result has appended its two entries.
C15_Witness ==
    \E t \in Threads :
        /\ pc[t] = "trimStore" /\ Len(appended[t]) = 2
        /\ messages[t][1].role = "system"
        /\ \E i \in DOMAIN messages[t] : "tool_calls" \in DOMAIN messages[t][i]
        /\ Len(ToolMessages(t)) >= 1
        /\ Contains(conversation_histories[user_id[t]], appended[t])

\* C16: every call of a tool function carries the provider id and the
\* credential of the turn's booking_data, and enters the implementation of that
\* provider or none, whatever the oracle's arguments hold under 'provider' and
\* 'client_api_key'.
C16_DescriptorDecidesProvider ==
    \A t \in Threads : \A r \in invoked[t] :
        /\ r.provider = ProviderOf(booking_data[t])
        /\ r.credential = ApiKeyOf(booking_data[t])
        /\ r.impl \in {ProviderOf(booking_data[t]), "none"}

\* C16 witness: in a turn for Setmore the oracle's arguments named Square and a
\* credential of its own, and the call entered Setmore with the turn's credential.
C16_Witness ==
    \E t \in Threads : \E r \in invoked[t] :
        /\ pc[t] \in {"tools", "synth"}
        /\ tool_calls[t][r.id].arguments.dict = ForgedArgs
        /\ ProviderOf(booking_data[t]) = "setmore"
        /\ r.impl = "setmore" /\ r.credential = "refresh-1"

\* The synthesis call of the turn of thread t has been issued.
SynthesisIssued(t) == decision[t] = "tools" /\ calls[t] = 2

\* C17: once a turn has issued its synthesis call, no step makes a further
\* oracle call or a call of a tool function in that turn, and the turn never
\* goes back to deciding or to executing tools; the content of the synthesis
\* response is the final text, also when the response holds tool requests.
C17_SynthesisIsFinal ==
    [][ \A t \in Threads :
            SynthesisIssued(t) =>
                /\ pc[t] \in {"appendUser", "appendAssistant", "trimRead", "trimStore"}
                        => final_response[t] = second_response[t].content
                /\ pc'[t] \notin {"build", "decide", "tools", "synth", "blocked"}
                /\ pc'[t] # "idle" =>
                        calls'[t] = calls[t] /\ invoked'[t] = invoked[t] ]_vars

\* C17 witness: a turn whose synthesis response held a text and tool requests
\* is about to return, with two oracle calls made.
C17_Witness ==
    \E t \in Threads :
        /\ pc[t] = "trimStore" /\ SynthesisIssued(t)
        /\ second_response[t].tool_calls # <<>>
        /\ final_response[t] = <<"ok">>
        /\ Len(appended[t]) = 2

\* The turn of thread t awaits the decision, executes tools or awaits the synthesis.
Awaiting(t) == pc[t] \in {"decide", "tools", "synth", "blocked"}

\* The step is taken by thread t.
Moved(t) == pc'[t] # pc[t] \/ idx'[t] # idx[t]

\* No entry of the turn of thread t is in a persisted history.
NothingPersisted(t) ==
    /\ appended[t] = <<>>
    /\ \A u \in Users : \A i \in DOMAIN conversation_histories[u] :
            conversation_histories[u][i].turn # turn_no[t]

\* C18: a turn that awaits the decision, executes tools or awaits the synthesis
\* has persisted nothing, and its steps from these states (the oracle calls,
\* the tool executions, and the failure that ends it) leave every persisted
\* history as it is, so a turn that ends there has persisted nothing.
C18_WritesOnlyWhenPersisting ==
    [][ \A t \in Threads :
            Awaiting(t) =>
                /\ NothingPersisted(t)
                /\ Moved(t) =>
                        /\ conversation_histories' = conversation_histories
                        /\ history_keys' = history_keys
                        /\ pc'[t] \in {"failed", "blocked"} => appended'[t] = <<>> ]_vars

\* C18 witness: a turn of u1 has executed a tool and awaits the synthesis while
\* the history of u1 is what it was before the turn.
C18_Witness ==
    \E t \in Threads :
        /\ pc[t] = "synth" /\ user_id[t] = "u1" /\ invoked[t] # {}
        /\ conversation_histories["u1"] = Prefill
        /\ appended[t] = <<>>

\* The history is made of whole pairs: a user entry, then an assistant entry
\* with a content that is not empty.
WholePairs(h) ==
    /\ Len(h) % 2 = 0
    /\ \A i \in DOMAIN h :
            IF i % 2 = 1 THEN h[i].role = "user"
            ELSE h[i].role = "assistant" /\ h[i].content # <<>>

\* C19, as claimed: when every turn started so far has returned, every user's
\* persisted history is made of whole user/assistant pairs: it starts with a
\* user entry, alternates strictly, every assistant content is non-empty and
\* the length is even.
C19_WholePairs ==
    (\A t \in Threads : pc[t] \in {"idle", "done", "failed"}) =>
        \A u \in Users : WholePairs(conversation_histories[u])

\* The user of the turn that thread t is handling, or starts with this step.
TurnUser(t) == IF pc[t] = "idle" THEN user_id'[t] ELSE user_id[t]

\* C20: a step of a turn for user u, in any interleaving with other turns,
\* leaves the persisted history of every other user (its entries and whether
\* it exists) as it is, and the step by which a turn fails changes no user's
\* history, so that the turns that follow find the histories as they were.
C20_OtherUsersUntouched ==
    [][ \A t \in Threads :
            Moved(t) =>
                /\ \A v \in Users \ {TurnUser(t)} :
                        /\ conversation_histories'[v] = conversation_histories[v]
                        /\ (v \in history_keys') = (v \in history_keys)
                /\ pc'[t] = "failed" =>
                        /\ conversation_histories' = conversation_histories
                        /\ history_keys' = history_keys ]_vars

\* C20 witness: the first turn, for u1, has failed; the turn started after it,
\* for u2, has completed with a reply and its pair of entries, and the history
\* of u1 is what it was at the start.
C20_Witness ==
    \E t1, t2 \in Threads :
        /\ pc[t1] = "failed" /\ user_id[t1] = "u1" /\ turn_no[t1] = 1
        /\ pc[t2] = "done" /\ user_id[t2] = "u2" /\ turn_no[t2] = 2
        /\ reply[t2] = <<"ok">>
        /\ conversation_histories["u2"] = appended[t2] /\ Len(appended[t2]) = 2
        /\ conversation_histories["u1"] = Prefill

\* A create_appointment call of the turn of thread t succeeded at the provider.
Booked(t) ==
    \E r \in invoked[t] :
        /\ r.operation = "create_appointment"
        /\ r.result \in {"Setmore: success", "Square: success"}

\* C21: a turn in which create_appointment succeeded at the provider does not
\* reply with the apology, and when it has returned it is done and has
\* persisted its user entry and its final reply.
C21_BookedTurnsPersist ==
    \A t \in Threads :
        Booked(t) =>
            /\ reply[t] # APOLOGY
            /\ Finished(t) => (pc[t] = "done" /\ AppendedPair(t))

====
